---- MODULE Spec2Model ----
(***************************************************************************)
(* Model of the medicine-identification backend (src/main.py):             *)
(*   analyze_image      parse one model response into a JSON value         *)
(*   merge_results      field-wise plurality vote over per-image results   *)
(*   identify_medicine  the /identify/ handler: analyse, filter, merge     *)
(*                                                                         *)
(* JSON values are tagged records [kind, val]; a dict's val is a function  *)
(* from its keys, so `k in d` is k \in DOMAIN d.val.  A Counter is the     *)
(* sequence of its (value, count) items in insertion order, which is the   *)
(* iteration order of a Python dict.                                       *)
(***************************************************************************)
EXTENDS Integers, Sequences, FiniteSets, TLC

VARIABLES
    nfiles,       \* identify_medicine: number of uploaded files
    file_idx,     \* identify_medicine: position of `for file in files`
    inputs,       \* history: what each processed file produced (image, model text)
    responses,    \* identify_medicine: the local list `responses`
    hpc,          \* identify_medicine: "loop", "done", "raised" ("idle" when unused)
    ret,          \* identify_medicine: the returned value
    merge_calls,  \* history: the arguments merge_results was invoked with
    results,      \* merge_results: its argument
    idx,          \* merge_results: position of `for result in results`
    merged_data,  \* merge_results: the local dict of Counters and lists
    mpc,          \* merge_results: "loop", "done", "raised" ("idle" when unused)
    out           \* merge_results: the returned value

vars == <<nfiles, file_idx, inputs, responses, hpc, ret, merge_calls,
          results, idx, merged_data, mpc, out>>

handler_vars == <<nfiles, file_idx, inputs, responses, hpc, ret, merge_calls>>
merge_vars == <<results, idx, merged_data, mpc, out>>

(***************************************************************************)
(* Bounds                                                                  *)
(***************************************************************************)
MaxResults == 4
MaxFiles == 3

(***************************************************************************)
(* JSON values                                                             *)
(***************************************************************************)
Lenses == {"accurate", "guessed"}
ScalarFields == {"name", "dosage", "manufacturer", "usage"}
AllFields == ScalarFields \cup {"side_effects"}

Obj(f) == [kind |-> "dict", val |-> f]
EmptyDict == Obj(<<>>)
JNull == [kind |-> "null"]
JList == [kind |-> "list"]
JStr == [kind |-> "str"]

NoValue == [kind |-> "none"]

FullGuess(n, d, s, m, u) ==
    Obj([name |-> n, dosage |-> d, side_effects |-> s, manufacturer |-> m, usage |-> u])

R1 == Obj([accurate |-> FullGuess("A", "500mg", <<"nausea">>, "M1", "U1"),
           guessed  |-> FullGuess("B", "250mg", <<"rash">>, "M2", "U2")])
R2 == Obj([accurate |-> FullGuess("B", "250mg", <<"nausea", "rash">>, "M2", "U2"),
           guessed  |-> FullGuess("A", "500mg", <<"rash", "rash">>, "M1", "U1")])
R3 == Obj([accurate |-> Obj([name |-> "B", side_effects |-> <<>>, usage |-> ""])])
R4 == Obj([accurate |-> EmptyDict,
           guessed  |-> Obj([dosage |-> "250mg", manufacturer |-> "Unknown",
                             side_effects |-> <<"nausea">>])])
R5 == Obj([accurate |-> Obj([dosage |-> "500mg", manufacturer |-> "M1"]),
           guessed  |-> Obj([name |-> "B", usage |-> "U1"])])
RNullLens == Obj([accurate |-> JNull])
ErrDict == Obj([error |-> "model refused"])

\* what merge_results can be handed: anything json.loads returns
ResultPool == {R1, R2, R3, R4, R5, EmptyDict, JList, RNullLens}

IsDict(x) == x.kind = "dict"
HasKey(x, k) == k \in DOMAIN x.val

Range(s) == {s[i] : i \in DOMAIN s}

SeqsUpTo(S, n) == UNION {[1..k -> S] : k \in 0..n}

(***************************************************************************)
(* collections.Counter                                                     *)
(***************************************************************************)
EmptyCounter == <<>>

\* variant: a repeated value gets a second item instead of a higher count
CounterIncrNoLookup(c, v) == Append(c, [v |-> v, n |-> 1])

CounterIncr(c, v) ==
    IF \E i \in DOMAIN c : c[i].v = v
    THEN [i \in DOMAIN c |-> IF c[i].v = v THEN [c[i] EXCEPT !.n = @ + 1] ELSE c[i]]
    ELSE Append(c, [v |-> v, n |-> 1])

\* variant: `>=`, so the last of the tied items is kept
RECURSIVE MaxItemLast(_, _, _)
MaxItemLast(c, i, best) ==
    IF i > Len(c) THEN best
    ELSE MaxItemLast(c, i + 1, IF c[i].n >= c[best].n THEN i ELSE best)

\* max(items, key=count): the first item is kept until a strictly larger one
RECURSIVE MaxItem(_, _, _)
MaxItem(c, i, best) ==
    IF i > Len(c) THEN best
    ELSE MaxItem(c, i + 1, IF c[i].n > c[best].n THEN i ELSE best)

MostCommon1(c) == c[MaxItem(c, 2, 1)].v

\* variant: a value is reported only when a second image confirms it
ScalarOutConfirmed(c) ==
    IF Len(c) > 0 /\ c[MaxItem(c, 2, 1)].n > 1 THEN MostCommon1(c) ELSE "Unknown"

ScalarOut(c) == IF Len(c) > 0 THEN MostCommon1(c) ELSE "Unknown"

\* variant: list(xs), duplicates kept
ListOfSetKeepAll(xs) == {xs}

\* list(set(xs)): the elements once each, in an order the hashing decides
ListOfSet(xs) ==
    LET S == Range(xs)
        n == Cardinality(S)
    IN  {s \in [1..n -> S] : \A i, j \in 1..n : i # j => s[i] # s[j]}

(***************************************************************************)
(* merge_results                                                           *)
(***************************************************************************)
EmptyLens == [name |-> EmptyCounter, dosage |-> EmptyCounter, side_effects |-> <<>>,
              manufacturer |-> EmptyCounter, usage |-> EmptyCounter]

EmptyMerged == [accurate |-> EmptyLens, guessed |-> EmptyLens]

\* variant: a missing scalar field is tallied as the empty string
TallyLensAbsentVotes(md, data) ==
    [f \in AllFields |->
        IF f = "side_effects"
        THEN IF f \in DOMAIN data THEN md[f] \o data[f] ELSE md[f]
        ELSE CounterIncr(md[f], IF f \in DOMAIN data THEN data[f] ELSE "")]

\* the five `if "<field>" in data` statements of one lens
TallyLens(md, data) ==
    [f \in AllFields |->
        IF f \in DOMAIN data
        THEN IF f = "side_effects" THEN md[f] \o data[f] ELSE CounterIncr(md[f], data[f])
        ELSE md[f]]

\* `"name" in data` raises TypeError when data is None
LensRaises(result, l) == HasKey(result, l) /\ ~IsDict(result.val[l])

ResultRaises(result) == IsDict(result) /\ \E l \in Lenses : LensRaises(result, l)

MergeOne(md, result) ==
    [l \in Lenses |->
        IF HasKey(result, l) THEN TallyLens(md[l], result.val[l].val) ELSE md[l]]

\* variant: only the fields that received a vote are returned
ReturnLensVotedOnly(md, effects) ==
    [f \in {g \in AllFields : md[g] # <<>>} |->
        IF f = "side_effects" THEN effects ELSE MostCommon1(md[f])]

ReturnLens(md, effects) ==
    [name |-> ScalarOut(md.name), dosage |-> ScalarOut(md.dosage),
     side_effects |-> effects,
     manufacturer |-> ScalarOut(md.manufacturer), usage |-> ScalarOut(md.usage)]

MergeOutputs(md) ==
    {[accurate |-> ReturnLens(md.accurate, sa), guessed |-> ReturnLens(md.guessed, sg)] :
        sa \in ListOfSet(md.accurate.side_effects),
        sg \in ListOfSet(md.guessed.side_effects)}

\* the whole loop, as the handler's call runs it
RECURSIVE MergeFold(_, _, _)
MergeFold(rs, i, md) ==
    IF i > Len(rs) THEN [raised |-> FALSE, md |-> md]
    ELSE IF ~IsDict(rs[i]) THEN MergeFold(rs, i + 1, md)
    ELSE IF ResultRaises(rs[i]) THEN [raised |-> TRUE]
    ELSE MergeFold(rs, i + 1, MergeOne(md, rs[i]))

MergeRaisesOn(rs) == MergeFold(rs, 1, EmptyMerged).raised

MergeResults(rs) == MergeOutputs(MergeFold(rs, 1, EmptyMerged).md)

HandlerIdle ==
    /\ nfiles = 0
    /\ file_idx = 1
    /\ inputs = <<>>
    /\ responses = <<>>
    /\ hpc = "idle"
    /\ ret = NoValue
    /\ merge_calls = <<>>

MergeInit ==
    /\ HandlerIdle
    /\ results \in SeqsUpTo(ResultPool, MaxResults)
    /\ idx = 1
    /\ merged_data = EmptyMerged
    /\ mpc = "loop"
    /\ out = NoValue

\* line 85 false: the result is not a dict and is passed over
MergeSkipNonDict ==
    /\ mpc = "loop"
    /\ idx <= Len(results)
    /\ ~IsDict(results[idx])
    /\ idx' = idx + 1
    /\ UNCHANGED <<results, merged_data, mpc, out>>
    /\ UNCHANGED handler_vars

MergeTally ==
    /\ mpc = "loop"
    /\ idx <= Len(results)
    /\ IsDict(results[idx])
    /\ ~ResultRaises(results[idx])
    /\ merged_data' = MergeOne(merged_data, results[idx])
    /\ idx' = idx + 1
    /\ UNCHANGED <<results, mpc, out>>
    /\ UNCHANGED handler_vars

MergeTypeError ==
    /\ mpc = "loop"
    /\ idx <= Len(results)
    /\ ResultRaises(results[idx])
    /\ mpc' = "raised"
    /\ UNCHANGED <<results, idx, merged_data, out>>
    /\ UNCHANGED handler_vars

\* variant: an empty argument is rejected with an error
MergeReturnRejectEmpty ==
    /\ mpc = "loop"
    /\ idx > Len(results)
    /\ IF results = <<>>
       THEN mpc' = "raised" /\ out' = out
       ELSE mpc' = "done" /\ out' \in MergeOutputs(merged_data)
    /\ UNCHANGED <<results, idx, merged_data>>
    /\ UNCHANGED handler_vars

MergeReturn ==
    /\ mpc = "loop"
    /\ idx > Len(results)
    /\ out' \in MergeOutputs(merged_data)
    /\ mpc' = "done"
    /\ UNCHANGED <<results, idx, merged_data>>
    /\ UNCHANGED handler_vars

MergeNext ==
    \/ MergeSkipNonDict
    \/ MergeTally
    \/ MergeTypeError
    \/ MergeReturn

SpecMerge == MergeInit /\ [][MergeNext]_vars

(***************************************************************************)
(* analyze_image                                                           *)
(*                                                                         *)
(* A response text is a sequence of tokens: whitespace, the two fence      *)
(* markers, one complete JSON document (carrying the value it parses to),  *)
(* or text that is not JSON.                                               *)
(***************************************************************************)
WS == [t |-> "ws"]
\* the markers "```json" and "```"
FenceJson == [t |-> "fence_json"]
Fence == [t |-> "fence"]
Junk == [t |-> "junk"]
Doc(v) == [t |-> "json", v |-> v]

\* str.strip()
RECURSIVE LStrip(_)
LStrip(s) == IF Len(s) > 0 /\ Head(s).t = "ws" THEN LStrip(Tail(s)) ELSE s

RECURSIVE RStrip(_)
RStrip(s) ==
    IF Len(s) > 0 /\ s[Len(s)].t = "ws" THEN RStrip(SubSeq(s, 1, Len(s) - 1)) ELSE s

Strip(s) == RStrip(LStrip(s))

\* str.replace(marker, "")
Remove(s, marker) == LET Keep(tok) == tok.t # marker IN SelectSeq(s, Keep)

\* line 58
CleanResponse(text) == Strip(Remove(Remove(Strip(text), "fence_json"), "fence"))

\* json.loads: one document, whitespace around it allowed, nothing else
JsonLoads(s) ==
    LET body == Strip(s)
    IN  IF Len(body) = 1 /\ body[1].t = "json"
        THEN [ok |-> TRUE, value |-> body[1].v]
        ELSE [ok |-> FALSE]

FailureMarker == Obj([error |-> "Invalid AI response"])

\* variant: a text that does not parse yields an empty result
ParseResponseEmptyOnError(text) ==
    LET parsed == JsonLoads(CleanResponse(text))
    IN  IF parsed.ok THEN parsed.value ELSE EmptyDict

\* lines 56-63, for a response text that was obtained
ParseResponse(text) ==
    LET parsed == JsonLoads(CleanResponse(text))
    IN  IF parsed.ok THEN parsed.value ELSE FailureMarker

UnreadableImage == [image |-> "unreadable"]
Upload(text) == [image |-> "ok", text |-> text]

\* Image.open (line 51) raises on bytes that are not an image, as
\* generate_content (line 54) does on a transport error
AnalyzeRaises(inp) == inp.image # "ok"

AnalyzeImage(inp) == ParseResponse(inp.text)

Plain(v) == <<Doc(v)>>
Fenced(v) == <<FenceJson, WS, Doc(v), WS, Fence>>
Padded(v) == <<WS, Doc(v), WS, WS>>

UnparseableTexts ==
    {<<>>, <<Junk>>, <<FenceJson, WS, Junk, WS, Fence>>, <<Junk, WS, Doc(R1)>>,
     <<Doc(R1), WS, Doc(R2)>>, <<WS, Fence>>}

ParseableTexts ==
    {Plain(R1), Fenced(R2), Padded(R3), Fenced(EmptyDict), Plain(JList), Fenced(JStr),
     Plain(RNullLens), Padded(ErrDict)}

FileInputs == {UnreadableImage} \cup {Upload(t) : t \in UnparseableTexts \cup ParseableTexts}

(***************************************************************************)
(* identify_medicine                                                       *)
(***************************************************************************)
ErrorResponse == [error |-> "Failed to identify medicine from provided images"]

MergeIdle ==
    /\ results = <<>>
    /\ idx = 1
    /\ merged_data = EmptyMerged
    /\ mpc = "idle"
    /\ out = NoValue

\* File(...) makes the upload required: the handler runs with at least one file
Init ==
    /\ MergeIdle
    /\ nfiles \in 1..MaxFiles
    /\ file_idx = 1
    /\ inputs = <<>>
    /\ responses = <<>>
    /\ hpc = "loop"
    /\ ret = NoValue
    /\ merge_calls = <<>>

\* variant: the key is misspelt
IsSkippedWrongKey(ai_result) == IsDict(ai_result) /\ HasKey(ai_result, "errors")

\* line 140
IsSkipped(ai_result) == IsDict(ai_result) /\ HasKey(ai_result, "error")

\* analyze_image raises: the exception leaves the handler
AnalyzeFails ==
    /\ hpc = "loop"
    /\ file_idx <= nfiles
    /\ \E inp \in FileInputs :
        /\ AnalyzeRaises(inp)
        /\ inputs' = Append(inputs, inp)
    /\ hpc' = "raised"
    /\ UNCHANGED <<nfiles, file_idx, responses, ret, merge_calls>>
    /\ UNCHANGED merge_vars

\* variant: `break` in place of `continue`
SkipInvalidBreak ==
    /\ hpc = "loop"
    /\ file_idx <= nfiles
    /\ \E inp \in FileInputs :
        /\ ~AnalyzeRaises(inp)
        /\ IsSkipped(AnalyzeImage(inp))
        /\ inputs' = Append(inputs, inp)
    /\ file_idx' = nfiles + 1
    /\ UNCHANGED <<nfiles, responses, hpc, ret, merge_calls>>
    /\ UNCHANGED merge_vars

\* lines 140-141: `continue`
SkipInvalid ==
    /\ hpc = "loop"
    /\ file_idx <= nfiles
    /\ \E inp \in FileInputs :
        /\ ~AnalyzeRaises(inp)
        /\ IsSkipped(AnalyzeImage(inp))
        /\ inputs' = Append(inputs, inp)
    /\ file_idx' = file_idx + 1
    /\ UNCHANGED <<nfiles, responses, hpc, ret, merge_calls>>
    /\ UNCHANGED merge_vars

\* line 142
AppendResponse ==
    /\ hpc = "loop"
    /\ file_idx <= nfiles
    /\ \E inp \in FileInputs :
        /\ ~AnalyzeRaises(inp)
        /\ ~IsSkipped(AnalyzeImage(inp))
        /\ inputs' = Append(inputs, inp)
        /\ responses' = Append(responses, AnalyzeImage(inp))
    /\ file_idx' = file_idx + 1
    /\ UNCHANGED <<nfiles, hpc, ret, merge_calls>>
    /\ UNCHANGED merge_vars

\* lines 144-145
ReturnError ==
    /\ hpc = "loop"
    /\ file_idx > nfiles
    /\ responses = <<>>
    /\ ret' = ErrorResponse
    /\ hpc' = "done"
    /\ UNCHANGED <<nfiles, file_idx, inputs, responses, merge_calls>>
    /\ UNCHANGED merge_vars

\* lines 147-148
ReturnMedicine ==
    /\ hpc = "loop"
    /\ file_idx > nfiles
    /\ responses # <<>>
    /\ ~MergeRaisesOn(responses)
    /\ merge_calls' = Append(merge_calls, responses)
    /\ \E final_result \in MergeResults(responses) : ret' = [medicine |-> final_result]
    /\ hpc' = "done"
    /\ UNCHANGED <<nfiles, file_idx, inputs, responses>>
    /\ UNCHANGED merge_vars

\* line 147 when merge_results raises
MergeFails ==
    /\ hpc = "loop"
    /\ file_idx > nfiles
    /\ responses # <<>>
    /\ MergeRaisesOn(responses)
    /\ merge_calls' = Append(merge_calls, responses)
    /\ hpc' = "raised"
    /\ UNCHANGED <<nfiles, file_idx, inputs, responses, ret>>
    /\ UNCHANGED merge_vars

Next ==
    \/ AnalyzeFails
    \/ SkipInvalid
    \/ AppendResponse
    \/ ReturnError
    \/ ReturnMedicine
    \/ MergeFails

Spec == Init /\ [][Next]_vars

(***************************************************************************)
(* merge_results run to completion under weak fairness of its steps: a     *)
(* running call keeps executing.                                           *)
(***************************************************************************)
SpecMergeLive == MergeInit /\ [][MergeNext]_vars /\ WF_vars(MergeNext)

(***************************************************************************)
(* Vocabulary of the properties, computed from the inputs alone            *)
(***************************************************************************)
\* an ImageResult: a dict whose lenses, where present, are dicts
IsImageResult(x) ==
    /\ x.kind = "dict"
    /\ \A l \in Lenses : l \in DOMAIN x.val => x.val[l].kind = "dict"

HasField(x, l, f) ==
    /\ IsImageResult(x)
    /\ l \in DOMAIN x.val
    /\ f \in DOMAIN x.val[l].val

FieldOf(x, l, f) == x.val[l].val[f]

Voters(rs, l, f) == {i \in DOMAIN rs : HasField(rs[i], l, f)}

VoteCount(rs, l, f, v) == Cardinality({i \in Voters(rs, l, f) : FieldOf(rs[i], l, f) = v})

Supplied(rs, l, f) == {FieldOf(rs[i], l, f) : i \in Voters(rs, l, f)}

FirstSeen(rs, l, f, v) ==
    CHOOSE i \in Voters(rs, l, f) :
        /\ FieldOf(rs[i], l, f) = v
        /\ \A j \in Voters(rs, l, f) : FieldOf(rs[j], l, f) = v => i <= j

Winners(rs, l, f) ==
    {v \in Supplied(rs, l, f) :
        \A w \in Supplied(rs, l, f) : VoteCount(rs, l, f, w) <= VoteCount(rs, l, f, v)}

UnknownLens == [name |-> "Unknown", dosage |-> "Unknown", side_effects |-> <<>>,
                manufacturer |-> "Unknown", usage |-> "Unknown"]

AllUnknown == [accurate |-> UnknownLens, guessed |-> UnknownLens]

SameOutput(a, b) ==
    \A l \in Lenses :
        /\ \A f \in ScalarFields : a[l][f] = b[l][f]
        /\ Range(a[l].side_effects) = Range(b[l].side_effects)

\* C1: every scalar output has a maximal number of votes among the results
\* in which the field is present; a result without the field votes for nothing.
C1_Plurality ==
    mpc = "done" =>
        \A l \in Lenses, f \in ScalarFields :
            Voters(results, l, f) # {} =>
                \A v \in Supplied(results, l, f) \cup {""} :
                    VoteCount(results, l, f, v) <= VoteCount(results, l, f, out[l][f])

C1_Witness ==
    /\ mpc = "done"
    /\ \E l \in Lenses, f \in ScalarFields :
        /\ \E i \in DOMAIN results : ~HasField(results[i], l, f)
        /\ \E w \in Supplied(results, l, f) :
            /\ w # out[l][f]
            /\ FirstSeen(results, l, f, w) < FirstSeen(results, l, f, out[l][f])
            /\ VoteCount(results, l, f, w) < VoteCount(results, l, f, out[l][f])

\* C2: among the values tied for the highest count, the one returned is the
\* one whose first occurrence in the input sequence is earliest.
C2_FirstEncounteredWins ==
    mpc = "done" =>
        \A l \in Lenses, f \in ScalarFields :
            Voters(results, l, f) # {} =>
                /\ out[l][f] \in Winners(results, l, f)
                /\ \A w \in Winners(results, l, f) :
                    FirstSeen(results, l, f, out[l][f]) <= FirstSeen(results, l, f, w)

C2_Witness ==
    /\ mpc = "done"
    /\ results = <<R1, R2, R2, R1>>
    /\ out.accurate.name = "A"
    /\ out.guessed.name = "B"

\* C3 as stated: merge_results on an empty sequence fails and returns nothing.
C3_EmptyInputFails ==
    (mpc # "idle" /\ results = <<>>) => (mpc # "done" /\ out = NoValue)

\* C3 amended: merge_results on an empty sequence raises nothing and returns
\* the record whose scalars are all "Unknown" and whose side_effects are empty.
C3_EmptyInputAllUnknown ==
    (mpc \notin {"idle", "loop"} /\ results = <<>>) => (mpc = "done" /\ out = AllUnknown)

C3_Witness == mpc = "done" /\ results = <<>> /\ out = AllUnknown

\* C6: per lens, the returned side_effects are, as a set, the union of the
\* side_effects lists present for that lens, and no value is returned twice.
C6_SideEffectsUnion ==
    mpc = "done" =>
        \A l \in Lenses :
            /\ Range(out[l].side_effects) =
                   UNION {Range(FieldOf(results[i], l, "side_effects")) :
                              i \in Voters(results, l, "side_effects")}
            /\ Cardinality(Range(out[l].side_effects)) = Len(out[l].side_effects)

C6_Witness ==
    /\ mpc = "done"
    /\ Range(out.accurate.side_effects) = {"nausea", "rash"}
    /\ Range(out.guessed.side_effects) = {"rash"}
    /\ \E i, j \in DOMAIN results :
        /\ i # j
        /\ HasField(results[i], "guessed", "side_effects")
        /\ FieldOf(results[i], "guessed", "side_effects") = <<"rash", "rash">>
        /\ HasField(results[j], "accurate", "side_effects")
        /\ FieldOf(results[j], "accurate", "side_effects") = <<"nausea">>

\* no exception on image results; scalars are supplied values or the default
C7_Inv ==
    /\ (mpc = "raised" => \E i \in DOMAIN results : ~IsImageResult(results[i]))
    /\ mpc = "done" =>
        \A l \in Lenses, f \in ScalarFields :
            IF Supplied(results, l, f) = {}
            THEN out[l][f] = "Unknown"
            ELSE out[l][f] \in Supplied(results, l, f)

\* C7: on image results merge_results never raises and always returns; each
\* scalar output is "Unknown" when no result supplies the field and is
\* otherwise one of the values supplied for that lens and field.
C7_TerminatesWithSuppliedValues == []C7_Inv /\ <>(mpc \in {"done", "raised"})

C7_Witness ==
    /\ mpc = "done"
    /\ Len(results) >= 2
    /\ \A i \in DOMAIN results : IsImageResult(results[i])
    /\ out.accurate.name = "Unknown"
    /\ Supplied(results, "accurate", "name") = {}
    /\ out.guessed.name = "B"
    /\ out.guessed.manufacturer = "Unknown"
    /\ "Unknown" \in Supplied(results, "guessed", "manufacturer")

\* C8: merge_results([r, r]) returns what merge_results([r]) returns, with
\* side_effects compared as sets.
C8_RepeatIdempotent ==
    (mpc = "done" /\ Len(results) = 2 /\ results[1] = results[2]) =>
        \A single \in MergeResults(<<results[1]>>) : SameOutput(out, single)

C8_Witness ==
    /\ mpc = "done"
    /\ results = <<R2, R2>>
    /\ out.accurate.name = "B"
    /\ Range(out.accurate.side_effects) = {"nausea", "rash"}

\* C9: the output always has both lenses with all five fields, and for the
\* single empty result every scalar is "Unknown" and both lists are empty.
C9_OutputShape ==
    mpc = "done" =>
        /\ DOMAIN out = Lenses
        /\ \A l \in Lenses : DOMAIN out[l] = AllFields
        /\ results = <<EmptyDict>> => out = AllUnknown

C9_Witness == mpc = "done" /\ results = <<EmptyDict>> /\ out = AllUnknown

(***************************************************************************)
(* identify_medicine                                                       *)
(***************************************************************************)
\* the files whose analysis returned
Processed == 1..(file_idx - 1)

Outcome(k) == AnalyzeImage(inputs[k])

FailureResult(x) == x.kind = "dict" /\ "error" \in DOMAIN x.val

RECURSIVE SurvivorsUpTo(_)
SurvivorsUpTo(k) ==
    IF k = 0 THEN <<>>
    ELSE IF FailureResult(Outcome(k)) THEN SurvivorsUpTo(k - 1)
    ELSE Append(SurvivorsUpTo(k - 1), Outcome(k))

Survivors == SurvivorsUpTo(file_idx - 1)

LoopOver == hpc # "loop" /\ file_idx > nfiles

\* C4: merge_results is only ever invoked with a non-empty sequence holding no
\* failure marker; when every analysed file gave a failure marker the handler
\* returns the error object as a value and merge_results is not invoked.
C4_MergeOnlyOnSurvivors ==
    /\ \A c \in DOMAIN merge_calls :
        /\ merge_calls[c] # <<>>
        /\ \A j \in DOMAIN merge_calls[c] : merge_calls[c][j] # FailureMarker
    /\ (LoopOver /\ \A k \in Processed : Outcome(k) = FailureMarker) =>
        /\ hpc = "done"
        /\ ret = ErrorResponse
        /\ merge_calls = <<>>

C4_Witness ==
    /\ hpc = "done"
    /\ Len(merge_calls) = 1
    /\ \E k \in Processed : Outcome(k) = FailureMarker

\* a response that is unparseable, or parses to something that is not an
\* object with a lens
Malformed(inp) ==
    \/ inp.text \in UnparseableTexts
    \/ LET v == JsonLoads(CleanResponse(inp.text)).value
       IN  v.kind # "dict" \/ \A l \in Lenses : l \notin DOMAIN v.val

\* C5 as stated: every malformed response is dropped, and a batch of only
\* malformed responses returns the error object.
C5_MalformedDropped ==
    /\ Len(responses) <= Cardinality({k \in Processed : ~Malformed(inputs[k])})
    /\ (LoopOver /\ \A k \in Processed : Malformed(inputs[k])) =>
        (hpc = "done" /\ ret = ErrorResponse)

\* a parseable response that is a list, a string or an object with neither
\* lens nor an "error" key
OddShape(inp) ==
    /\ inp.text \notin UnparseableTexts
    /\ LET v == JsonLoads(CleanResponse(inp.text)).value
       IN  \/ v.kind \in {"list", "str"}
           \/ v.kind = "dict" /\ DOMAIN v.val \cap (Lenses \cup {"error"}) = {}

\* C5 amended: an unparseable response becomes a failure marker and is
\* dropped, and a batch of only unparseable responses returns the error
\* object; a parseable response of another shape is kept, votes for nothing,
\* and a batch of unparseable and such responses with at least one of the
\* latter returns {"medicine": all "Unknown", no side effects}.
C5_UnparseableDropped ==
    /\ Len(responses) <=
           Cardinality({k \in Processed : inputs[k].text \notin UnparseableTexts})
    /\ Cardinality({k \in Processed : OddShape(inputs[k])}) <= Len(responses)
    /\ FailureMarker \notin Range(responses)
    /\ (LoopOver /\ \A k \in Processed : inputs[k].text \in UnparseableTexts) =>
        (hpc = "done" /\ ret = ErrorResponse)
    /\ ( /\ LoopOver
         /\ \A k \in Processed : inputs[k].text \in UnparseableTexts \/ OddShape(inputs[k])
         /\ \E k \in Processed : OddShape(inputs[k]) ) =>
        (hpc = "done" /\ ret = [medicine |-> AllUnknown])

C5_Witness ==
    /\ hpc = "done"
    /\ ret = [medicine |-> AllUnknown]
    /\ Len(inputs) = 3
    /\ Len(responses) = 2
    /\ inputs[2].text \in UnparseableTexts
    /\ OddShape(inputs[1])
    /\ OddShape(inputs[3])

====
